---- MODULE Spec2Model ----
(***************************************************************************)
(* Model of examples/sample-autodetect.c of libgphoto2: the discovery pass *)
(* sample_autodetect (the Prober, with the two process-wide catalogs        *)
(* portinfolist and abilities) and the binder sample_open_camera.           *)
(*                                                                          *)
(* Every library call of the two functions is one step of the calling       *)
(* thread, so that the globals are read and written in the order of the     *)
(* source and two callers can interleave between any two calls.             *)
(***************************************************************************)
EXTENDS Integers, Sequences, FiniteSets, TLC

\* ---------------------------------------------------------------- bounds
\* Calls of sample_autodetect / sample_open_camera the single caller makes.
MaxCalls == 3
\* Calls the concurrent callers make, all together.
MaxConcCalls == 2
\* Calls a caller of sample_autodetect and a concurrent caller of
\* sample_open_camera make, all together.
MaxRaceCalls == 3
\* Ports the transport enumeration can report.
MaxPorts == 3

\* ------------------------------------------------- library result codes
GP_OK == 0
GP_ERROR == -1
GP_ERROR_BAD_PARAMETERS == -2
GP_ERROR_NO_MEMORY == -3
GP_ERROR_UNKNOWN_PORT == -5
GP_ERROR_MODEL_NOT_FOUND == -105

\* The null pointer; catalog objects are numbered from 1.
NULL == 0

Threads == {1, 2}

\* ------------------------------------------------------- the environment
\* What the transport enumeration can report, in its order: the bare
\* placeholder of the USB transport first, then the addressed endpoints.
PortUniverse ==
  << [type |-> "usb", path |-> "usb:"],
     [type |-> "usb", path |-> "usb:001,002"],
     [type |-> "usb", path |-> "usb:001,003"],
     [type |-> "usb", path |-> "usb:002,001"] >>

\* What the driver database can hold, in its order.
ModelUniverse ==
  << [model |-> "Model-X", vendor |-> 1234],
     [model |-> "Model-Y", vendor |-> 5678] >>

Range(s) == {s[i] : i \in 1..Len(s)}

Min(a, b) == IF a < b THEN a ELSE b

Prefixes(u, n) == {SubSeq(u, 1, k) : k \in 0..Min(n, Len(u))}

\* The contents a load of the port catalog can produce.
PortEnvs == Prefixes(PortUniverse, MaxPorts)

\* The contents a load of the driver catalog can produce.
ModelEnvs == Prefixes(ModelUniverse, Len(ModelUniverse))

\* The names and paths a caller can hand to sample_open_camera.
BindModels == {d.model : d \in Range(ModelUniverse)} \cup {"Nonexistent-Model"}

BindPaths == {d.path : d \in Range(PortUniverse)} \cup {"serial:COM7"}

\* ------------------------------------------------------ library functions
\* A catalog object: created empty, filled by its load.
EmptyCatalog == [loaded |-> FALSE, items |-> <<>>]

\* Least index (from 0, as in C) of the entry whose field f is key, or none.
IndexOf(items, key, f) ==
  LET hits == {i \in 1..Len(items) : items[i][f] = key}
  IN  IF hits = {} THEN -1
      ELSE (CHOOSE i \in hits : \A j \in hits : i <= j) - 1

\* gp_abilities_list_lookup_model (list, model)
gp_abilities_list_lookup_model(heap, list, model) ==
  IF list = NULL THEN GP_ERROR_BAD_PARAMETERS
  ELSE IF IndexOf(heap[list].items, model, "model") < 0
       THEN GP_ERROR_MODEL_NOT_FOUND
       ELSE IndexOf(heap[list].items, model, "model")

\* gp_port_info_list_lookup_path (list, path)
gp_port_info_list_lookup_path(heap, list, path) ==
  IF list = NULL THEN GP_ERROR_BAD_PARAMETERS
  ELSE IF IndexOf(heap[list].items, path, "path") < 0
       THEN GP_ERROR_UNKNOWN_PORT
       ELSE IndexOf(heap[list].items, path, "path")

\* gp_abilities_list_get_abilities (list, index, &a) and
\* gp_port_info_list_get_info (list, n, &info): the status, and the entry
\* when the index is one of the list.
ListGet(heap, list, n) ==
  IF list = NULL \/ n < 0 THEN [ret |-> GP_ERROR_BAD_PARAMETERS, set |-> FALSE]
  ELSE IF n >= Len(heap[list].items)
       THEN [ret |-> GP_ERROR_BAD_PARAMETERS, set |-> FALSE]
       ELSE [ret |-> GP_OK, set |-> TRUE, val |-> heap[list].items[n + 1]]

gp_abilities_list_get_abilities(heap, list, index) == ListGet(heap, list, index)

gp_port_info_list_get_info(heap, list, n) == ListGet(heap, list, n)

\* gp_port_info_list_count (list)
gp_port_info_list_count(heap, list) ==
  IF list = NULL THEN GP_ERROR_BAD_PARAMETERS ELSE Len(heap[list].items)

\* gp_abilities_list_detect (abilities, portinfolist, xlist): the lists the
\* batched probe can produce: for each port of the catalog, in the
\* catalog's order, either nothing or one driver of the catalog found there.
Detected(models, ports) ==
  LET D[i \in 0..Len(ports)] ==
        IF i = 0 THEN {<<>>}
        ELSE D[i - 1] \cup
             {Append(s, [name |-> a.model, value |-> ports[i].path]) :
                s \in D[i - 1], a \in Range(models)}
  IN  D[Len(ports)]

\* gp_list_count (list)
gp_list_count(list) == Len(list)

\* gp_camera_set_abilities (camera, abilities): the handle takes the driver
\* descriptor.
gp_camera_set_abilities(camera, a) ==
  [ret |-> GP_OK, camera |-> [camera EXCEPT !.a = a]]

\* gp_camera_set_port_info (camera, info): the handle takes the port
\* descriptor.
gp_camera_set_port_info(camera, pi) ==
  [ret |-> GP_OK, camera |-> [camera EXCEPT !.pi = pi]]

\* ------------------------------------------------------------------ state
VARIABLES
  portinfolist,  \* the global GPPortInfoList *portinfolist: NULL or an object
  abilities,     \* the global CameraAbilitiesList *abilities: NULL or an object
  pilHeap,       \* the port catalog objects created so far, by number
  ablHeap,       \* the driver catalog objects created so far, by number
  pc,            \* where each thread is
  calls,         \* how many calls each thread has made
  list,          \* each caller's CameraList *list, the output of a pass
  ad,            \* the locals of each thread's sample_autodetect
  bd,            \* the locals of each thread's sample_open_camera
  enumCalls,     \* invocations of gp_port_info_list_new / _load so far
  mn             \* the locals of main

vars == <<portinfolist, abilities, pilHeap, ablHeap, pc, calls, list, ad, bd,
          enumCalls, mn>>

\* CameraList *xlist = NULL
NoList == [alloc |-> FALSE, items |-> <<>>]

\* The locals of sample_autodetect at entry; list0, detRet and det record
\* the caller's list at entry and what the detect call returned, made
\* whether gp_list_new created xlist, freed and freedNull how often
\* gp_list_free was called on a list and on the NULL pointer.
AdEntry(l) ==
  [list0 |-> l, xlist |-> NoList, ret |-> GP_OK, detRet |-> "none", det |-> <<>>,
   made |-> FALSE, freed |-> 0, freedNull |-> 0]

\* Camera *camera before gp_camera_new; a and pi hold the driver descriptor
\* and the port descriptor the handle has been given, if any.
NoCamera == [alloc |-> FALSE, a |-> {}, pi |-> {}]

\* The locals of sample_open_camera at entry; a and pi hold what the get
\* calls have stored, diag the path the stderr message has named, prev how
\* the caller's previous call ended, mFrom the catalog object that answered
\* the lookup of the model.
BdEntry(model, port) ==
  [model |-> model, port |-> port, camera |-> NoCamera, ret |-> GP_OK,
   m |-> GP_OK, p |-> GP_OK, a |-> {}, pi |-> {}, diag |-> {},
   prev |-> "none", mFrom |-> NULL]

\* The locals of main at entry: count and i, the handles cams[0..] with the
\* arguments and the result of the sample_open_camera call of each, and the
\* indices main has handed to gp_camera_get_summary; passOk records whether
\* the detect call of the pass succeeded.
MainEntry ==
  [pc |-> "m_list_new", count |-> 0, i |-> 0, cams |-> <<>>,
   summaries |-> <<>>, passOk |-> FALSE]

\* The calls made so far, by all callers.
RECURSIVE SumCalls(_, _)
SumCalls(c, T) ==
  IF T = {} THEN 0
  ELSE LET t == CHOOSE x \in T : TRUE IN c[t] + SumCalls(c, T \ {t})

TotalCalls == SumCalls(calls, Threads)

Init ==
  /\ portinfolist = NULL
  /\ abilities = NULL
  /\ pilHeap = <<>>
  /\ ablHeap = <<>>
  /\ pc = [t \in Threads |-> "idle"]
  /\ calls = [t \in Threads |-> 0]
  /\ list = [t \in Threads |-> <<>>]
  /\ ad = [t \in Threads |-> AdEntry(<<>>)]
  /\ bd = [t \in Threads |-> BdEntry("", "")]
  /\ enumCalls = 0
  /\ mn = MainEntry

\* ---------------------------------------------------- sample_autodetect
\* if (ret < GP_OK): the test after every library call.
Failed(ret) == ret < GP_OK

\* The test of the port catalog dropped: the catalog is built on every call.
PortCatalogMissing_Always(pil) == TRUE

\* if (!portinfolist)
PortCatalogMissing(pil) == pil = NULL

\* The test of strcmp's result inverted: strcmp ("usb:", value).
IsPlaceholder_Inverted(value) == value # "usb:"

\* !strcmp ("usb:", value)
IsPlaceholder(value) == value = "usb:"

\* The loop reading entry 0 of xlist on every iteration.
AppendFiltered_FirstEntry(l, xl) ==
  LET F[i \in 0..Len(xl)] ==
        IF i = 0 THEN l
        ELSE IF IsPlaceholder(xl[1].value) THEN F[i - 1]
             ELSE Append(F[i - 1], xl[1])
  IN  F[Len(xl)]

\* The loop putting every entry it keeps in front of the list.
AppendFiltered_Reversed(l, xl) ==
  LET F[i \in 0..Len(xl)] ==
        IF i = 0 THEN l
        ELSE IF IsPlaceholder(xl[i].value) THEN F[i - 1]
             ELSE <<xl[i]>> \o F[i - 1]
  IN  F[Len(xl)]

\* The loop over xlist: every entry but the placeholders is appended to
\* list, in xlist's order.
RECURSIVE AppendFiltered(_, _)
AppendFiltered(l, xl) ==
  IF xl = <<>> THEN l
  ELSE IF IsPlaceholder(Head(xl).value)
       THEN AppendFiltered(l, Tail(xl))
       ELSE AppendFiltered(Append(l, Head(xl)), Tail(xl))

\* A caller enters sample_autodetect with a list of its own: a new one, or
\* the one an earlier pass of its filled.
CallAutodetect(t, max) ==
  /\ pc[t] = "idle"
  /\ TotalCalls < max
  /\ \E l \in {<<>>, list[t]} :
       /\ Len(l) <= MaxPorts
       /\ list' = [list EXCEPT ![t] = l]
       /\ ad' = [ad EXCEPT ![t] = AdEntry(l)]
  /\ calls' = [calls EXCEPT ![t] = @ + 1]
  /\ pc' = [pc EXCEPT ![t] = "ad_list_new"]
  /\ UNCHANGED <<mn, portinfolist, abilities, pilHeap, ablHeap, bd, enumCalls>>

\* ret = gp_list_new (&xlist); if (ret < GP_OK) goto out;
AdListNew(t) ==
  /\ pc[t] = "ad_list_new"
  /\ \E r \in {GP_OK, GP_ERROR_NO_MEMORY} :
       /\ ad' = [ad EXCEPT ![t].ret = r,
                           ![t].made = ~Failed(r),
                           ![t].xlist = IF Failed(r) THEN NoList
                                        ELSE [alloc |-> TRUE, items |-> <<>>]]
       /\ pc' = [pc EXCEPT ![t] = IF Failed(r) THEN "ad_out" ELSE "ad_check"]
  /\ UNCHANGED <<mn, portinfolist, abilities, pilHeap, ablHeap, calls, list, bd,
                 enumCalls>>

\* if (!portinfolist) { ... }
AdCheck(t) ==
  /\ pc[t] = "ad_check"
  /\ pc' = [pc EXCEPT ![t] = IF PortCatalogMissing(portinfolist)
                             THEN "ad_pil_new" ELSE "ad_abl_new"]
  /\ UNCHANGED <<mn, portinfolist, abilities, pilHeap, ablHeap, calls, list, ad,
                 bd, enumCalls>>

\* ret = gp_port_info_list_new (&portinfolist); if (ret < GP_OK) goto out;
AdPilNew(t) ==
  /\ pc[t] = "ad_pil_new"
  /\ enumCalls' = enumCalls + 1
  /\ \E r \in {GP_OK, GP_ERROR_NO_MEMORY} :
       /\ ad' = [ad EXCEPT ![t].ret = r]
       /\ IF Failed(r)
          THEN /\ UNCHANGED <<portinfolist, pilHeap>>
               /\ pc' = [pc EXCEPT ![t] = "ad_out"]
          ELSE /\ pilHeap' = Append(pilHeap, EmptyCatalog)
               /\ portinfolist' = Len(pilHeap) + 1
               /\ pc' = [pc EXCEPT ![t] = "ad_pil_load"]
  /\ UNCHANGED <<mn, abilities, ablHeap, calls, list, bd>>

\* ret = gp_port_info_list_load (portinfolist); if (ret < 0) goto out;
AdPilLoad(t) ==
  /\ pc[t] = "ad_pil_load"
  /\ enumCalls' = enumCalls + 1
  /\ \/ \E env \in PortEnvs :
          /\ pilHeap' = [pilHeap EXCEPT ![portinfolist] =
                           [loaded |-> TRUE, items |-> env]]
          /\ ad' = [ad EXCEPT ![t].ret = GP_OK]
          /\ pc' = [pc EXCEPT ![t] = "ad_pil_count"]
     \/ /\ pilHeap' = [pilHeap EXCEPT ![portinfolist] = EmptyCatalog]
        /\ ad' = [ad EXCEPT ![t].ret = GP_ERROR]
        /\ pc' = [pc EXCEPT ![t] = "ad_out"]
  /\ UNCHANGED <<mn, portinfolist, abilities, ablHeap, calls, list, bd>>

\* ret = gp_port_info_list_count (portinfolist); if (ret < 0) goto out;
AdPilCount(t) ==
  /\ pc[t] = "ad_pil_count"
  /\ LET r == gp_port_info_list_count(pilHeap, portinfolist)
     IN  /\ ad' = [ad EXCEPT ![t].ret = r]
         /\ pc' = [pc EXCEPT ![t] = IF r < 0 THEN "ad_out" ELSE "ad_abl_new"]
  /\ UNCHANGED <<mn, portinfolist, abilities, pilHeap, ablHeap, calls, list, bd,
                 enumCalls>>

\* ret = gp_abilities_list_new (&abilities); if (ret < GP_OK) goto out;
AdAblNew(t) ==
  /\ pc[t] = "ad_abl_new"
  /\ \E r \in {GP_OK, GP_ERROR_NO_MEMORY} :
       /\ ad' = [ad EXCEPT ![t].ret = r]
       /\ IF Failed(r)
          THEN /\ UNCHANGED <<abilities, ablHeap>>
               /\ pc' = [pc EXCEPT ![t] = "ad_out"]
          ELSE /\ ablHeap' = Append(ablHeap, EmptyCatalog)
               /\ abilities' = Len(ablHeap) + 1
               /\ pc' = [pc EXCEPT ![t] = "ad_abl_load"]
  /\ UNCHANGED <<mn, portinfolist, pilHeap, calls, list, bd, enumCalls>>

\* ret = gp_abilities_list_load (abilities, context); if (ret < GP_OK) goto out;
AdAblLoad(t) ==
  /\ pc[t] = "ad_abl_load"
  /\ \/ \E env \in ModelEnvs :
          /\ ablHeap' = [ablHeap EXCEPT ![abilities] =
                           [loaded |-> TRUE, items |-> env]]
          /\ ad' = [ad EXCEPT ![t].ret = GP_OK]
          /\ pc' = [pc EXCEPT ![t] = "ad_detect"]
     \/ /\ ablHeap' = [ablHeap EXCEPT ![abilities] = EmptyCatalog]
        /\ ad' = [ad EXCEPT ![t].ret = GP_ERROR]
        /\ pc' = [pc EXCEPT ![t] = "ad_out"]
  /\ UNCHANGED <<mn, portinfolist, abilities, pilHeap, calls, list, bd, enumCalls>>

\* The test of the detect call's status dropped.
DetectFailed_Unchecked(ret) == FALSE

\* if (ret < GP_OK) goto out; after gp_abilities_list_detect.
DetectFailed(ret) == ret < GP_OK

\* ret = gp_abilities_list_detect (abilities, portinfolist, xlist, context);
\* if (ret < GP_OK) goto out;
\* A detect call that fails leaves in xlist what it had found until then.
AdDetect(t) ==
  /\ pc[t] = "ad_detect"
  /\ \E d \in Detected(ablHeap[abilities].items, pilHeap[portinfolist].items) :
       \/ /\ ad' = [ad EXCEPT ![t].ret = GP_OK, ![t].xlist.items = d,
                               ![t].detRet = "ok", ![t].det = d]
          /\ pc' = [pc EXCEPT ![t] = IF DetectFailed(GP_OK) THEN "ad_out"
                                     ELSE "ad_filter"]
       \/ /\ ad' = [ad EXCEPT ![t].ret = GP_ERROR, ![t].xlist.items = d,
                               ![t].detRet = "failed"]
          /\ pc' = [pc EXCEPT ![t] = IF DetectFailed(GP_ERROR) THEN "ad_out"
                                     ELSE "ad_filter"]
  /\ UNCHANGED <<mn, portinfolist, abilities, pilHeap, ablHeap, calls, list, bd,
                 enumCalls>>

\* ret = gp_list_count (xlist); if (ret < GP_OK) goto out;
\* for (i=0;i<ret;i++) { ... gp_list_append (list, name, value); }
AdFilter(t) ==
  /\ pc[t] = "ad_filter"
  /\ LET r == gp_list_count(ad[t].xlist.items)
     IN  /\ ad' = [ad EXCEPT ![t].ret = r]
         /\ list' = [list EXCEPT ![t] =
                       IF Failed(r) THEN @
                       ELSE AppendFiltered(@, SubSeq(ad[t].xlist.items, 1, r))]
  /\ pc' = [pc EXCEPT ![t] = "ad_out"]
  /\ UNCHANGED <<mn, portinfolist, abilities, pilHeap, ablHeap, calls, bd, enumCalls>>

\* The exit returning without the call of gp_list_free.
AdOut_NoFree(t) ==
  /\ pc[t] = "ad_out"
  /\ ad' = [ad EXCEPT ![t].ret = gp_list_count(list[t])]
  /\ pc' = [pc EXCEPT ![t] = "ad_ret"]
  /\ UNCHANGED <<mn, portinfolist, abilities, pilHeap, ablHeap, calls, list, bd,
                 enumCalls>>

\* out: gp_list_free (xlist); return gp_list_count(list);
AdOut(t) ==
  /\ pc[t] = "ad_out"
  /\ ad' = [ad EXCEPT ![t].xlist = NoList,
                      ![t].freed = IF ad[t].xlist.alloc THEN @ + 1 ELSE @,
                      ![t].freedNull = IF ad[t].xlist.alloc THEN @ ELSE @ + 1,
                      ![t].ret = gp_list_count(list[t])]
  /\ pc' = [pc EXCEPT ![t] = "ad_ret"]
  /\ UNCHANGED <<mn, portinfolist, abilities, pilHeap, ablHeap, calls, list, bd,
                 enumCalls>>

\* The caller has the result of sample_autodetect.
AdReturn(t) ==
  /\ pc[t] = "ad_ret"
  /\ pc' = [pc EXCEPT ![t] = "idle"]
  /\ ad' = [ad EXCEPT ![t] = AdEntry(<<>>)]
  /\ UNCHANGED <<mn, portinfolist, abilities, pilHeap, ablHeap, calls, list, bd,
                 enumCalls>>

\* The steps of sample_autodetect between its call and its return.
AutodetectBody(t) ==
  \/ AdListNew(t)
  \/ AdCheck(t)
  \/ AdPilNew(t)
  \/ AdPilLoad(t)
  \/ AdPilCount(t)
  \/ AdAblNew(t)
  \/ AdAblLoad(t)
  \/ AdDetect(t)
  \/ AdFilter(t)
  \/ AdOut(t)

Autodetect(t, max) ==
  \/ CallAutodetect(t, max)
  \/ AutodetectBody(t)
  \/ AdReturn(t)

\* --------------------------------------------------- sample_open_camera
\* A caller enters sample_open_camera with a name and a port path.
CallOpenCamera(t, max) ==
  /\ pc[t] = "idle"
  /\ TotalCalls < max
  /\ \E model \in BindModels, port \in BindPaths :
       bd' = [bd EXCEPT ![t] = [BdEntry(model, port) EXCEPT !.prev = bd[t].prev]]
  /\ calls' = [calls EXCEPT ![t] = @ + 1]
  /\ pc' = [pc EXCEPT ![t] = "b_camera_new"]
  /\ UNCHANGED <<mn, portinfolist, abilities, pilHeap, ablHeap, list, ad, enumCalls>>

\* The failure exit of gp_camera_new releasing the driver catalog: the
\* global is left NULL.
BCameraNew_DropsCatalog(t) ==
  /\ pc[t] = "b_camera_new"
  /\ \E r \in {GP_OK, GP_ERROR_NO_MEMORY} :
       /\ bd' = [bd EXCEPT ![t].ret = r,
                           ![t].camera.alloc = ~Failed(r)]
       /\ abilities' = IF Failed(r) THEN NULL ELSE abilities
       /\ pc' = [pc EXCEPT ![t] = IF Failed(r) THEN "b_ret" ELSE "b_lookup_model"]
  /\ UNCHANGED <<mn, portinfolist, pilHeap, ablHeap, calls, list, ad, enumCalls>>

\* ret = gp_camera_new (camera); if (ret < GP_OK) return ret;
BCameraNew(t) ==
  /\ pc[t] = "b_camera_new"
  /\ \E r \in {GP_OK, GP_ERROR_NO_MEMORY} :
       /\ bd' = [bd EXCEPT ![t].ret = r,
                           ![t].camera.alloc = ~Failed(r)]
       /\ pc' = [pc EXCEPT ![t] = IF Failed(r) THEN "b_ret" ELSE "b_lookup_model"]
  /\ UNCHANGED <<mn, portinfolist, abilities, pilHeap, ablHeap, calls, list, ad,
                 enumCalls>>

\* m = gp_abilities_list_lookup_model (abilities, model);
\* if (m < GP_OK) return ret;
BLookupModel(t) ==
  /\ pc[t] = "b_lookup_model"
  /\ LET m == gp_abilities_list_lookup_model(ablHeap, abilities, bd[t].model)
     IN  /\ bd' = [bd EXCEPT ![t].m = m, ![t].mFrom = abilities]
         /\ pc' = [pc EXCEPT ![t] = IF m < GP_OK THEN "b_ret"
                                    ELSE "b_get_abilities"]
  /\ UNCHANGED <<mn, portinfolist, abilities, pilHeap, ablHeap, calls, list, ad,
                 enumCalls>>

\* ret = gp_abilities_list_get_abilities (abilities, m, &a);
\* if (ret < GP_OK) return ret;
BGetAbilities(t) ==
  /\ pc[t] = "b_get_abilities"
  /\ LET g == gp_abilities_list_get_abilities(ablHeap, abilities, bd[t].m)
     IN  /\ bd' = [bd EXCEPT ![t].ret = g.ret,
                             ![t].a = IF g.set THEN {g.val} ELSE @]
         /\ pc' = [pc EXCEPT ![t] = IF Failed(g.ret) THEN "b_ret"
                                    ELSE "b_set_abilities"]
  /\ UNCHANGED <<mn, portinfolist, abilities, pilHeap, ablHeap, calls, list, ad,
                 enumCalls>>

\* ret = gp_camera_set_abilities (*camera, a); if (ret < GP_OK) return ret;
BSetAbilities(t) ==
  /\ pc[t] = "b_set_abilities"
  /\ LET r == gp_camera_set_abilities(bd[t].camera, bd[t].a)
     IN  /\ bd' = [bd EXCEPT ![t].ret = r.ret, ![t].camera = r.camera]
         /\ pc' = [pc EXCEPT ![t] = IF Failed(r.ret) THEN "b_ret"
                                    ELSE "b_lookup_path"]
  /\ UNCHANGED <<mn, portinfolist, abilities, pilHeap, ablHeap, calls, list, ad,
                 enumCalls>>

\* switch (p) { case GP_ERROR_UNKNOWN_PORT: fprintf (stderr, ...); break; ... }
\* the paths the message on stderr names.
PortDiagnostic(p, port) == IF p = GP_ERROR_UNKNOWN_PORT THEN {port} ELSE {}

\* p = gp_port_info_list_lookup_path (portinfolist, port);
\* if (ret < GP_OK) return ret;
\* switch (p) { ... }
\* if (ret < GP_OK) return ret;
BLookupPath(t) ==
  /\ pc[t] = "b_lookup_path"
  /\ LET p == gp_port_info_list_lookup_path(pilHeap, portinfolist, bd[t].port)
     IN  IF Failed(bd[t].ret)
         THEN /\ bd' = [bd EXCEPT ![t].p = p]
              /\ pc' = [pc EXCEPT ![t] = "b_ret"]
         ELSE /\ bd' = [bd EXCEPT ![t].p = p,
                                  ![t].diag = PortDiagnostic(p, bd[t].port)]
              /\ pc' = [pc EXCEPT ![t] = "b_get_info"]
  /\ UNCHANGED <<mn, portinfolist, abilities, pilHeap, ablHeap, calls, list, ad,
                 enumCalls>>

\* The driver's index handed to the port catalog instead of the port's.
PortIndex_Model(b) == b.m

\* The index sample_open_camera hands to gp_port_info_list_get_info: p.
PortIndex(b) == b.p

\* ret = gp_port_info_list_get_info (portinfolist, p, &pi);
\* if (ret < GP_OK) return ret;
BGetInfo(t) ==
  /\ pc[t] = "b_get_info"
  /\ LET g == gp_port_info_list_get_info(pilHeap, portinfolist, PortIndex(bd[t]))
     IN  /\ bd' = [bd EXCEPT ![t].ret = g.ret,
                             ![t].pi = IF g.set THEN {g.val} ELSE @]
         /\ pc' = [pc EXCEPT ![t] = IF Failed(g.ret) THEN "b_ret"
                                    ELSE "b_set_port_info"]
  /\ UNCHANGED <<mn, portinfolist, abilities, pilHeap, ablHeap, calls, list, ad,
                 enumCalls>>

\* ret = gp_camera_set_port_info (*camera, pi); if (ret < GP_OK) return ret;
\* return GP_OK;
BSetPortInfo(t) ==
  /\ pc[t] = "b_set_port_info"
  /\ LET r == gp_camera_set_port_info(bd[t].camera, bd[t].pi)
     IN  bd' = [bd EXCEPT ![t].ret = IF Failed(r.ret) THEN r.ret ELSE GP_OK,
                          ![t].camera = r.camera]
  /\ pc' = [pc EXCEPT ![t] = "b_ret"]
  /\ UNCHANGED <<mn, portinfolist, abilities, pilHeap, ablHeap, calls, list, ad,
                 enumCalls>>

\* The caller has the result of sample_open_camera.
BReturn(t) ==
  /\ pc[t] = "b_ret"
  /\ pc' = [pc EXCEPT ![t] = "idle"]
  /\ bd' = [bd EXCEPT ![t] =
              [BdEntry("", "") EXCEPT
                 !.prev = IF Failed(bd[t].ret) THEN "failed" ELSE "ok"]]
  /\ UNCHANGED <<mn, portinfolist, abilities, pilHeap, ablHeap, calls, list, ad,
                 enumCalls>>

\* The steps of sample_open_camera between its call and its return.
OpenCameraBody(t) ==
  \/ BCameraNew(t)
  \/ BLookupModel(t)
  \/ BGetAbilities(t)
  \/ BSetAbilities(t)
  \/ BLookupPath(t)
  \/ BGetInfo(t)
  \/ BSetPortInfo(t)

OpenCamera(t, max) ==
  \/ CallOpenCamera(t, max)
  \/ OpenCameraBody(t)
  \/ BReturn(t)

\* ------------------------------------------------------------------- main
\* main runs as thread 1.
\* ret = gp_list_new (&list); if (ret < GP_OK) return 1;
MainListNew ==
  /\ mn.pc = "m_list_new"
  /\ pc[1] = "idle"
  /\ \E r \in {GP_OK, GP_ERROR_NO_MEMORY} :
       mn' = [mn EXCEPT !.pc = IF Failed(r) THEN "m_return_1" ELSE "m_autodetect"]
  /\ list' = [list EXCEPT ![1] = <<>>]
  /\ UNCHANGED <<portinfolist, abilities, pilHeap, ablHeap, pc, calls, ad, bd,
                 enumCalls>>

\* count = sample_autodetect (list, context); the call.
MainCallAutodetect ==
  /\ mn.pc = "m_autodetect"
  /\ ad' = [ad EXCEPT ![1] = AdEntry(list[1])]
  /\ pc' = [pc EXCEPT ![1] = "ad_list_new"]
  /\ mn' = [mn EXCEPT !.pc = "m_in_autodetect"]
  /\ UNCHANGED <<portinfolist, abilities, pilHeap, ablHeap, calls, list, bd,
                 enumCalls>>

\* count = sample_autodetect (list, context);
MainCount(ret) == ret

\* count = sample_autodetect (list, context); the return.
\* cams = calloc (sizeof (Camera*),count); i = 0, for the first loop.
MainTakeCount ==
  /\ mn.pc = "m_in_autodetect"
  /\ pc[1] = "ad_ret"
  /\ mn' = [mn EXCEPT !.pc = "m_open_loop", !.count = MainCount(ad[1].ret),
                      !.i = 0, !.passOk = (ad[1].detRet = "ok")]
  /\ pc' = [pc EXCEPT ![1] = "idle"]
  /\ ad' = [ad EXCEPT ![1] = AdEntry(<<>>)]
  /\ UNCHANGED <<portinfolist, abilities, pilHeap, ablHeap, calls, list, bd,
                 enumCalls>>

\* The list index of every iteration taken as 0.
MainIndex_First(i) == 0

\* gp_list_get_name (list, i, &name); gp_list_get_value (list, i, &value);
MainIndex(i) == i

\* gp_list_get_name / gp_list_get_value (list, i, ...): entry i of the list
\* (from 0); an index outside the list leaves name and value as they were.
gp_list_get(l, i, old) == IF i >= 0 /\ i < Len(l) THEN l[i + 1] ELSE old

\* for (i = 0; i < count; i++) { gp_list_get_name (list, i, &name);
\* gp_list_get_value (list, i, &value);
\* ret = sample_open_camera (&cams[i], name, value); the call.
MainOpen ==
  /\ mn.pc = "m_open_loop"
  /\ mn.i < mn.count
  /\ LET e == gp_list_get(list[1], MainIndex(mn.i), [name |-> "", value |-> ""])
     IN  bd' = [bd EXCEPT ![1] = BdEntry(e.name, e.value)]
  /\ pc' = [pc EXCEPT ![1] = "b_camera_new"]
  /\ mn' = [mn EXCEPT !.pc = "m_in_open"]
  /\ UNCHANGED <<portinfolist, abilities, pilHeap, ablHeap, calls, list, ad,
                 enumCalls>>

\* ret = sample_open_camera (&cams[i], name, value); the return.
\* if (ret < GP_OK) fprintf (stderr, ...); i++
MainAfterOpen ==
  /\ mn.pc = "m_in_open"
  /\ pc[1] = "b_ret"
  /\ mn' = [mn EXCEPT !.pc = "m_open_loop", !.i = @ + 1,
                      !.cams = Append(@, [model |-> bd[1].model,
                                          port |-> bd[1].port,
                                          ret |-> bd[1].ret,
                                          camera |-> bd[1].camera])]
  /\ pc' = [pc EXCEPT ![1] = "idle"]
  /\ bd' = [bd EXCEPT ![1] = BdEntry("", "")]
  /\ UNCHANGED <<portinfolist, abilities, pilHeap, ablHeap, calls, list, ad,
                 enumCalls>>

\* The first loop ends: i == count; i = 0, for the second loop.
MainOpenDone ==
  /\ mn.pc = "m_open_loop"
  /\ ~(mn.i < mn.count)
  /\ mn' = [mn EXCEPT !.pc = "m_summary_loop", !.i = 0]
  /\ UNCHANGED <<portinfolist, abilities, pilHeap, ablHeap, pc, calls, list,
                 ad, bd, enumCalls>>

\* gp_camera_get_summary (camera, &text, context): the results it can give;
\* a session on a bound handle can succeed or fail, no other can succeed.
gp_camera_get_summary(cam) ==
  IF ~cam.alloc THEN {GP_ERROR_BAD_PARAMETERS}
  ELSE IF cam.a = {} \/ cam.pi = {} THEN {GP_ERROR}
       ELSE {GP_OK, GP_ERROR}

\* for (i = 0; i < count; i++) {
\* ret = gp_camera_get_summary (cams[i], &text, context);
\* if (ret < GP_OK) { fprintf (stderr, ...); continue; } printf (...); }
\* summaries records the index and the result of every call.
MainSummary ==
  /\ mn.pc = "m_summary_loop"
  /\ mn.i < mn.count
  /\ \E r \in gp_camera_get_summary(mn.cams[mn.i + 1].camera) :
       mn' = [mn EXCEPT !.i = @ + 1,
                        !.summaries = Append(@, [i |-> mn.i, ret |-> r,
                                                 printed |-> ~Failed(r)])]
  /\ UNCHANGED <<portinfolist, abilities, pilHeap, ablHeap, pc, calls, list,
                 ad, bd, enumCalls>>

\* The second loop ends: return 0;
MainReturn ==
  /\ mn.pc = "m_summary_loop"
  /\ ~(mn.i < mn.count)
  /\ mn' = [mn EXCEPT !.pc = "m_return_0"]
  /\ UNCHANGED <<portinfolist, abilities, pilHeap, ablHeap, pc, calls, list,
                 ad, bd, enumCalls>>

\* ---------------------------------------------------------- specifications
\* One caller: the calls of a process follow each other.
Next == Autodetect(1, MaxCalls) \/ OpenCamera(1, MaxCalls)

Spec == Init /\ [][Next]_vars

\* Two callers, as threads of one process, with the globals shared.
NextConc ==
  \E t \in Threads : Autodetect(t, MaxConcCalls) \/ OpenCamera(t, MaxConcCalls)

SpecConc == Init /\ [][NextConc]_vars

\* Two threads of one process: one runs discovery passes, the other binds.
NextBindRace ==
  Autodetect(1, MaxRaceCalls) \/ OpenCamera(2, MaxRaceCalls)

SpecBindRace == Init /\ [][NextBindRace]_vars

\* The program: main, with the two functions it calls.
NextMain ==
  \/ MainListNew
  \/ MainCallAutodetect
  \/ AutodetectBody(1)
  \/ MainTakeCount
  \/ MainOpen
  \/ OpenCameraBody(1)
  \/ MainAfterOpen
  \/ MainOpenDone
  \/ MainSummary
  \/ MainReturn

SpecMain == Init /\ [][NextMain]_vars

\* ------------------------------------------------------------ properties
Count(e, s) == Cardinality({i \in 1..Len(s) : s[i] = e})

Kept(s) == {i \in 1..Len(s) : s[i].value # "usb:"}

\* The names of the driver catalog and the paths of the port catalog the
\* globals point to.
CatalogModels == IF abilities = NULL THEN {}
                 ELSE {d.model : d \in Range(ablHeap[abilities].items)}

CatalogPaths == IF portinfolist = NULL THEN {}
                ELSE {d.path : d \in Range(pilHeap[portinfolist].items)}

\* The globals point to catalogs whose load has succeeded.
PortCatalogLoaded == portinfolist # NULL /\ pilHeap[portinfolist].loaded

DriverCatalogLoaded == abilities # NULL /\ ablHeap[abilities].loaded

\* C1: when sample_autodetect returns after a detect call that succeeded,
\* the caller's list has no entry whose port is exactly "usb:", and the pass
\* has added every other entry of the detect call's list exactly as often
\* as the detect call produced it (once), and nothing else.
C1_PlaceholderFiltered ==
  \A t \in Threads :
    (pc[t] = "ad_ret" /\ ad[t].detRet = "ok") =>
      /\ \A i \in 1..Len(list[t]) : list[t][i].value # "usb:"
      /\ \A e \in Range(ad[t].det) :
           e.value # "usb:" =>
             /\ Count(e, ad[t].det) = 1
             /\ Count(e, list[t]) = Count(e, ad[t].list0) + 1
      /\ Len(list[t]) = Len(ad[t].list0) + Cardinality(Kept(ad[t].det))

\* A pass whose detect call found the placeholder and an addressed port, and
\* whose output holds the addressed one alone.
C1_Witness ==
  /\ pc[1] = "ad_ret"
  /\ ad[1].detRet = "ok"
  /\ Len(ad[1].det) = 2
  /\ ad[1].det[1].value = "usb:"
  /\ ad[1].det[2].value = "usb:001,002"
  /\ list[1] = <<ad[1].det[2]>>

\* C2: when sample_open_camera returns and its name is not in the loaded
\* driver catalog, it returns a failure, never a success.
C2_UnknownModelFails ==
  \A t \in Threads :
    ( /\ pc[t] = "b_ret"
      /\ DriverCatalogLoaded
      /\ bd[t].model \notin CatalogModels ) => Failed(bd[t].ret)

\* C3: when sample_open_camera returns after its name resolved and the
\* lookup of its path in the loaded port catalog answered "unknown port",
\* the value it returns is that answer, the message on stderr names the
\* path, and the handle has no port.
C3_UnknownPortFails ==
  \A t \in Threads :
    ( /\ pc[t] = "b_ret"
      /\ PortCatalogLoaded
      /\ bd[t].model \in CatalogModels
      /\ bd[t].p = GP_ERROR_UNKNOWN_PORT ) =>
      /\ bd[t].ret = GP_ERROR_UNKNOWN_PORT
      /\ bd[t].diag = {bd[t].port}
      /\ bd[t].camera.pi = {}

\* C4: when sample_open_camera, called with both catalogs loaded, returns
\* success, the handle holds exactly one driver descriptor and exactly one
\* port descriptor.
C4_SuccessIsBound ==
  \A t \in Threads :
    ( /\ pc[t] = "b_ret"
      /\ PortCatalogLoaded
      /\ DriverCatalogLoaded
      /\ ~Failed(bd[t].ret) ) =>
      /\ bd[t].camera.alloc
      /\ Cardinality(bd[t].camera.a) = 1
      /\ Cardinality(bd[t].camera.pi) = 1

\* What a bind of a name and a path of the catalogs must have produced: the
\* descriptors the library hands out for the looked-up indices.
BoundAsLookedUp(b) ==
  /\ b.ret = GP_OK
  /\ b.camera.a =
       {gp_abilities_list_get_abilities(ablHeap, abilities,
          gp_abilities_list_lookup_model(ablHeap, abilities, b.model)).val}
  /\ b.camera.pi =
       {gp_port_info_list_get_info(pilHeap, portinfolist,
          gp_port_info_list_lookup_path(pilHeap, portinfolist, b.port)).val}

C6_FailureIsNotEmptiness ==
  \A t \in Threads :
    pc[t] = "ad_ret" =>
      /\ ad[t].detRet = "failed" => Failed(ad[t].ret)
      /\ (ad[t].detRet = "ok" /\ ad[t].det = <<>>) =>
           (~Failed(ad[t].ret) /\ list[t] = ad[t].list0)

\* C7: no sample_autodetect call hands gp_abilities_list_detect a port
\* catalog object whose load has not succeeded.
C7_NoProbeOfFailedLoad ==
  \A t \in Threads :
    pc[t] = "ad_detect" => PortCatalogLoaded

\* C8: once the port catalog is loaded, no step replaces the catalog
\* object, changes its content, or invokes gp_port_info_list_new or
\* gp_port_info_list_load.
C8_PortCatalogLoadedOnce ==
  [][ PortCatalogLoaded =>
        /\ portinfolist' = portinfolist
        /\ pilHeap' = pilHeap
        /\ enumCalls' = enumCalls ]_vars

\* A second pass is at its detect call with the catalog the first pass
\* loaded, after the one gp_port_info_list_new and the one _load.
C8_Witness ==
  /\ pc[1] = "ad_detect"
  /\ calls[1] >= 2
  /\ portinfolist = 1
  /\ pilHeap[1].loaded
  /\ Len(pilHeap[1].items) = 2
  /\ enumCalls = 2

\* C9: once the driver catalog is loaded, no step replaces the catalog
\* object or loads it again.
C9_DriverCatalogLoadedOnce ==
  [][ DriverCatalogLoaded =>
        /\ abilities' = abilities
        /\ ablHeap' = ablHeap ]_vars

\* C10: however the callers interleave, the port catalog is created at most
\* once.
C10_SingleBuild == Len(pilHeap) <= 1

\* The positions inside sample_open_camera.
InOpenCamera(t) ==
  pc[t] \in {"b_camera_new", "b_lookup_model", "b_get_abilities",
             "b_set_abilities", "b_lookup_path", "b_get_info",
             "b_set_port_info"}

\* No step of sample_open_camera changes the two globals or the catalogs
\* they point to.
BindLeavesCatalogs ==
  \A t \in Threads :
    InOpenCamera(t) =>
      /\ portinfolist' = portinfolist
      /\ abilities' = abilities
      /\ pilHeap' = pilHeap
      /\ ablHeap' = ablHeap

Added(t) == SubSeq(list[t], Len(ad[t].list0) + 1, Len(list[t]))

C13_OrderKept ==
  \A t \in Threads :
    (pc[t] = "ad_ret" /\ ad[t].detRet = "ok") =>
      \A i, j \in 1..Len(Added(t)) :
        i < j =>
          \E a, b \in 1..Len(ad[t].det) :
            /\ a < b
            /\ ad[t].det[a] = Added(t)[i]
            /\ ad[t].det[b] = Added(t)[j]

\* The detect call found the placeholder and two addressed ports; the pass
\* has added the two, in that order, behind what the list held.
C13_Witness ==
  /\ pc[1] = "ad_ret"
  /\ ad[1].detRet = "ok"
  /\ Len(ad[1].det) = 3
  /\ ad[1].det[1].value = "usb:"
  /\ Len(ad[1].list0) = 1
  /\ Added(1) = <<ad[1].det[2], ad[1].det[3]>>
  /\ ad[1].det[2].name # ad[1].det[3].name

\* C15: when sample_autodetect returns from a pass in which a step failed
\* (the detect call was not reached, or failed), the caller's list is what
\* it was at entry.
C15_NoPartialList ==
  \A t \in Threads :
    (pc[t] = "ad_ret" /\ ad[t].detRet # "ok") => list[t] = ad[t].list0

\* A pass whose detect call failed, after it had found a port, has returned
\* to a caller whose list held an entry.
C15_Witness ==
  /\ pc[1] = "ad_ret"
  /\ ad[1].detRet = "failed"
  /\ Len(ad[1].list0) = 1
  /\ list[1] = ad[1].list0
  /\ ad[1].ret = 1

\* C14: whenever a sample_open_camera call is about to hand its driver
\* index to gp_abilities_list_get_abilities, the global abilities is the
\* catalog object that answered the lookup, and that catalog is loaded.
C14_IndexOfSameCatalog ==
  \A t \in Threads :
    pc[t] = "b_get_abilities" =>
      (abilities = bd[t].mFrom /\ DriverCatalogLoaded)

\* C16: sample_open_camera hands gp_abilities_list_get_abilities no
\* negative driver index and gp_port_info_list_get_info no negative port
\* index.
C16_ValidIndices ==
  \A t \in Threads :
    /\ pc[t] = "b_get_abilities" => bd[t].m >= 0
    /\ pc[t] = "b_get_info" => PortIndex(bd[t]) >= 0

\* C20, as stated: when sample_autodetect returns, xlist has been released
\* exactly once if gp_list_new created it, and gp_list_free has not been
\* called at all if gp_list_new failed.
C20_ReleasedOnce_Original ==
  \A t \in Threads :
    pc[t] = "ad_ret" =>
      /\ ad[t].made => (ad[t].freed = 1 /\ ad[t].freedNull = 0)
      /\ ~ad[t].made => (ad[t].freed = 0 /\ ad[t].freedNull = 0)

\* C20, amended: xlist is released exactly once if gp_list_new created it;
\* if gp_list_new failed, gp_list_free is called once, with the NULL
\* pointer, and releases no list.
C20_ReleasedOnce ==
  \A t \in Threads :
    /\ ad[t].freed <= 1
    /\ ~ad[t].made => ad[t].freed = 0
    /\ pc[t] = "ad_ret" =>
         /\ ~ad[t].xlist.alloc
         /\ ad[t].made => (ad[t].freed = 1 /\ ad[t].freedNull = 0)
         /\ ~ad[t].made => (ad[t].freed = 0 /\ ad[t].freedNull = 1)

\* A pass that went through its detect call has released xlist once.
C20_Witness ==
  /\ pc[1] = "ad_ret"
  /\ ad[1].detRet = "ok"
  /\ ad[1].made
  /\ ad[1].freed = 1
  /\ ad[1].freedNull = 0

\* C17: every handle main has handed to gp_camera_get_summary is one whose
\* sample_open_camera call succeeded and left it with a driver and a port.
C17_SummaryOnlyOnBound ==
  \A k \in 1..Len(mn.summaries) :
    LET c == mn.cams[mn.summaries[k].i + 1]
    IN  /\ ~Failed(c.ret)
        /\ c.camera.alloc
        /\ Cardinality(c.camera.a) = 1
        /\ Cardinality(c.camera.pi) = 1

\* main has its count.
MainCounted ==
  mn.pc \in {"m_open_loop", "m_in_open", "m_summary_loop", "m_return_0"}

\* The handle of cams[k - 1] holds the driver and the port of entry k - 1
\* of the list.
BoundToEntry(k) ==
  /\ {d.model : d \in mn.cams[k].camera.a} = {list[1][k].name}
  /\ {d.path : d \in mn.cams[k].camera.pi} = {list[1][k].value}

C19_BindOnlyAfterGoodPass ==
  /\ (InOpenCamera(1) \/ pc[1] = "b_ret") =>
       (mn.passOk /\ PortCatalogLoaded /\ DriverCatalogLoaded)
  /\ (MainCounted /\ ~mn.passOk) => (mn.count = 0 /\ mn.cams = <<>>)

\* main has returned after a pass whose port catalog load failed, without a
\* sample_open_camera call.
C19_Witness ==
  /\ mn.pc = "m_return_0"
  /\ ~mn.passOk
  /\ portinfolist = 1
  /\ ~pilHeap[1].loaded
  /\ mn.count = 0
  /\ mn.cams = <<>>

====
